---- MODULE Spec2Model ----
(***************************************************************************)
(* Model of the ux4ai aggregation core: the dashboard's                    *)
(* load_and_process_data / load_solution_data / chart builders             *)
(* (dashboard_server.py), the summary report's aggregation                 *)
(* (generate_summary_report.py) and the per-student report                 *)
(* (per_student_report.py).                                                *)
(*                                                                         *)
(* Text is a sequence of one-character strings, so that lower() and        *)
(* replace() are computed.  Numbers are held in tenths (the sliders of     *)
(* user_server.py step by 0.1), and a quotient is the exact fraction in    *)
(* lowest terms: floating-point rounding is not modelled.                  *)
(***************************************************************************)
EXTENDS Integers, Sequences, FiniteSets, TLC

\* ------------------------------------------------------------------ bounds

\* Number of candidate submission files below the data root.
MaxFiles == 2

Files == 1..MaxFiles

\* ------------------------------------------------------------------- text

Gemini == <<"G", "e", "m", "i", "n", "i">>
DeepL == <<"D", "e", "e", "p", "L">>
UnknownProduct ==
    <<"U", "n", "k", "n", "o", "w", "n", " ", "P", "r", "o", "d", "u", "c", "t">>
EmptyText == << >>

\* The products the submissions and references of the model name.
ProductNames == {Gemini, DeepL}

\* The cased characters of the model's texts.
UpperLetters ==
    <<"A", "B", "C", "D", "E", "F", "G", "H", "I", "J", "K", "L", "M",
      "N", "O", "P", "Q", "R", "S", "T", "U", "V", "W", "X", "Y", "Z">>
LowerLetters ==
    <<"a", "b", "c", "d", "e", "f", "g", "h", "i", "j", "k", "l", "m",
      "n", "o", "p", "q", "r", "s", "t", "u", "v", "w", "x", "y", "z">>

\* The character of letters `to` at the place c has in letters `from`; c
\* itself when it is not one of them.
Recase(c, from, to) ==
    IF \E i \in DOMAIN from : from[i] = c
    THEN to[CHOOSE i \in DOMAIN from : from[i] = c]
    ELSE c

\* str.lower() of one character.
LowerChar(c) == Recase(c, UpperLetters, LowerLetters)

Lower(s) == [i \in 1..Len(s) |-> LowerChar(s[i])]

\* str.replace(old, new) for a one-character old and new.
Replace(s, old, new) == [i \in 1..Len(s) |-> IF s[i] = old THEN new ELSE s[i]]

JsonSuffix == <<".", "j", "s", "o", "n">>

\* str.upper() of one character.
UpperChar(c) == Recase(c, LowerLetters, UpperLetters)

\* Cased characters: the ones str.title() treats as part of a word, and the
\* ones str.isalpha() accepts.
IsLetter(c) ==
    \E i \in DOMAIN UpperLetters : c = UpperLetters[i] \/ c = LowerLetters[i]

\* str.title(): a letter that starts a word is upper-cased, any other
\* letter lower-cased.
Title(s) ==
    [i \in 1..Len(s) |->
        IF i = 1 \/ ~IsLetter(s[i - 1]) THEN UpperChar(s[i]) ELSE LowerChar(s[i])]

RECURSIVE Strip(_)
\* str.strip() of a text whose only white space is the space.
Strip(s) ==
    IF s = << >> THEN s
    ELSE IF Head(s) = " " THEN Strip(Tail(s))
    ELSE IF s[Len(s)] = " " THEN Strip(SubSeq(s, 1, Len(s) - 1))
    ELSE s

RECURSIVE Split(_)
\* str.split(): the words between runs of spaces.
Split(s) ==
    IF s = << >> THEN << >>
    ELSE IF Head(s) = " " THEN Split(Tail(s))
    ELSE LET n == CHOOSE i \in 1..Len(s) :
                      /\ \A j \in 1..i : s[j] # " "
                      /\ i = Len(s) \/ s[i + 1] = " "
         IN  <<SubSeq(s, 1, n)>> \o Split(SubSeq(s, n + 1, Len(s)))

\* str.isalpha()
IsAlpha(s) == s # << >> /\ \A i \in DOMAIN s : IsLetter(s[i])

\* str.capitalize()
Capitalize(s) ==
    [i \in 1..Len(s) |-> IF i = 1 THEN UpperChar(s[i]) ELSE LowerChar(s[i])]

\* filename.endswith(".json")
EndsWithJson(s) ==
    /\ Len(s) >= Len(JsonSuffix)
    /\ SubSeq(s, Len(s) - Len(JsonSuffix) + 1, Len(s)) = JsonSuffix

\* filename.replace(".json", "") for a name that holds ".json" only as its
\* suffix.
StripJson(s) == IF EndsWithJson(s) THEN SubSeq(s, 1, Len(s) - Len(JsonSuffix)) ELSE s

\* product_name.lower().replace(" ", "_").replace("/", "_") + ".json"
SafeFilename(product_name) ==
    Replace(Replace(Lower(product_name), " ", "_"), "/", "_") \o JsonSuffix

\* ------------------------------------------------------------ JSON values

\* An optional text field of a JSON object: t is "absent" (no such key),
\* "null", or "str" with the text in v.
NoText == [t |-> "absent", v |-> << >>]
NullText == [t |-> "null", v |-> << >>]
Text(s) == [t |-> "str", v |-> s]

\* An optional numeric field: t is "absent", "null", "str" (a JSON string
\* where a number is expected) or "num" with the value, in tenths, in v.
NoNum == [t |-> "absent", v |-> 0]
NullNum == [t |-> "null", v |-> 0]
StrNum == [t |-> "str", v |-> 0]
Num(n) == [t |-> "num", v |-> n]

\* The empty mapping.
EmptyMap == [k \in {} |-> 0]

\* fn with x mapped to y, x added to its domain when new.
Put(fn, x, y) == [z \in DOMAIN fn \cup {x} |-> IF z = x THEN y ELSE fn[z]]

\* fn without x.
Without(fn, x) == [z \in DOMAIN fn \ {x} |-> fn[z]]

\* The "scores" field: absent, null, a non-empty JSON string, or an object
\* mapping dimension names to values.
NoScores == [t |-> "absent", v |-> EmptyMap]
StrScores == [t |-> "str", v |-> EmptyMap]
Scores(m) == [t |-> "obj", v |-> m]

\* The "risk_of_adversarial_attacks" / "continuous_learning_feedback_loops"
\* field: absent, or an object with an optional level and, when other is
\* TRUE, further keys (description, aspects, explanation).
NoSection == [t |-> "absent", level |-> NoNum, other |-> FALSE]
Section(level, other) == [t |-> "obj", level |-> level, other |-> other]

\* Python truthiness of the values above.
TruthyText(j) == j.t = "str" /\ j.v # EmptyText
TruthyScores(j) == j.t = "str" \/ (j.t = "obj" /\ DOMAIN j.v # {})
TruthySection(j) == j.t = "obj" /\ (j.level.t # "absent" \/ j.other)

\* Role texts are compared verbatim only, so they stay TLA+ strings.
NoRole == [t |-> "absent", v |-> ""]
NullRole == [t |-> "null", v |-> ""]
Role(s) == [t |-> "str", v |-> s]
AnyTextRole(j) == j.t = "str"
TruthyRole(j) == j.t = "str" /\ j.v # ""

\* ---------------------------------------------------------- file contents

\* What open() + json.load() make of a file:
\*   "unreadable"  open() or read() fails with an OSError (IOError)
\*   "badutf8"     the bytes are not UTF-8: read() raises UnicodeDecodeError
\*   "badjson"     the text is not JSON: json.load raises JSONDecodeError
\*   "nonobject"   JSON, but the top-level value is a list, not an object
\*   "object"      a JSON object with the fields below
Blank(form) ==
    [form |-> form, product_name |-> NoText, ai_role |-> NoRole,
     scores |-> NoScores, risk |-> NoSection, analytics |-> NoSection]

Record(product_name, ai_role, scores, risk, analytics) ==
    [form |-> "object", product_name |-> product_name, ai_role |-> ai_role,
     scores |-> scores, risk |-> risk, analytics |-> analytics]

Unreadable == Blank("unreadable")

\* A file capture_all_data is writing data to: "empty" once open(.., "w")
\* has created or truncated it, "partial" when part of the text is in it.
\* Either is a proper prefix of the JSON text of data.
Prefix(form, data) == [data EXCEPT !.form = form]
BadUtf8 == Blank("badutf8")
BadJson == Blank("badjson")
NonObject == Blank("nonobject")

\* Well-formed submissions (the schema user_server.py writes, fields optional).
GeminiA ==
    Record(Text(Gemini), NoRole,
           Scores("conversational" :> Num(40)), NoSection, NoSection)
GeminiB ==
    Record(Text(Gemini), Role("AI is a Feature"),
           Scores("conversational" :> Num(50) @@ "specialization" :> Num(30)),
           Section(Num(20), TRUE), Section(Num(30), TRUE))
DeepLA ==
    Record(Text(DeepL), Role("AI is the Product"), NoScores,
           Section(NoNum, TRUE), Section(Num(10), FALSE))

\* Submissions without a product name, otherwise fully scored.
Nameless(product_name) ==
    Record(product_name, Role("AI is a Feature"),
           Scores("conversational" :> Num(10)),
           Section(Num(50), TRUE), Section(Num(50), TRUE))

\* Parseable JSON objects with a data-quality problem.
ScoresNotMapping ==
    Record(Text(Gemini), NoRole, StrScores, NoSection, NoSection)
ScoreNotNumber ==
    Record(Text(Gemini), NoRole, Scores("conversational" :> StrNum),
           NoSection, NoSection)
ScoreNull ==
    Record(Text(Gemini), NoRole, Scores("conversational" :> NullNum),
           NoSection, NoSection)
RiskLevelNull ==
    Record(Text(Gemini), NoRole, NoScores, Section(NullNum, FALSE), NoSection)
AnalyticsLevelNull ==
    Record(Text(Gemini), NoRole, NoScores, NoSection, Section(NullNum, FALSE))

\* Submissions that are valid JSON objects with unusual values: a role
\* spelt in lower case, a null role, an empty role beside a score above 5.
GeminiC ==
    Record(Text(Gemini), Role("ai is a feature"), NoScores,
           Section(Num(40), FALSE), NoSection)
GeminiD ==
    Record(Text(Gemini), NullRole, NoScores, NoSection, NoSection)
DeepLB ==
    Record(Text(DeepL), Role(""), Scores("conversational" :> Num(70)),
           NoSection, NoSection)

\* A submission whose role is the text the summary shows for no role.
GeminiN ==
    Record(Text(Gemini), Role("N/A"), NoScores, NoSection, NoSection)

WellFormedContents == {GeminiA, GeminiB, DeepLA}
VariantContents == {GeminiC, GeminiD, DeepLB}
NamelessContents == {Nameless(NoText), Nameless(NullText), Nameless(Text(EmptyText))}
RecoverableContents == {Unreadable, BadJson}
QualityContents ==
    {NonObject, ScoresNotMapping, ScoreNotNumber, ScoreNull, RiskLevelNull,
     AnalyticsLevelNull}

Contents ==
    WellFormedContents \cup VariantContents \cup NamelessContents
        \cup RecoverableContents \cup {BadUtf8} \cup QualityContents

\* ------------------------------------------------------------- arithmetic

RECURSIVE GCD(_, _)
GCD(a, b) == IF b = 0 THEN a ELSE GCD(b, a % b)

\* total / count for count > 0: the quotient as a fraction in lowest terms.
Total(total, count) == [num |-> total, den |-> 1]
Average(total, count) ==
    LET g == GCD(total, count)
    IN  [num |-> total \div g, den |-> count \div g]

\* ------------------------------------------------- reading and aggregating

\* The exception open() / json.load() raise on a file, or "none".
ReadError(c) ==
    CASE c.form = "unreadable" -> "IOError"
      [] c.form = "badutf8" -> "UnicodeDecodeError"
      [] c.form = "badjson" -> "JSONDecodeError"
      [] c.form \in {"empty", "partial"} -> "JSONDecodeError"
      [] OTHER -> "none"

\* except (json.JSONDecodeError, IOError)
CaughtJsonOnly(e) == e = "JSONDecodeError"
Caught(e) == e \in {"JSONDecodeError", "IOError"}

\* if not product_name: continue
HasProductName(data) == TruthyText(data.product_name)

\* The exception the aggregation of a parsed value raises, or "none":
\* data.get on a non-object, .items() on a non-mapping, += with a value that
\* is not a number, .get("level") on a section whose level is not a number.
AggregateError(data) ==
    CASE data.form = "nonobject" -> "AttributeError"
      [] ~HasProductName(data) -> "none"
      [] data.scores.t = "str" -> "AttributeError"
      [] TruthyScores(data.scores)
           /\ \E k \in DOMAIN data.scores.v : data.scores.v[k].t # "num"
           -> "TypeError"
      [] TruthySection(data.risk) /\ data.risk.level.t \in {"null", "str"}
           -> "TypeError"
      [] TruthySection(data.analytics)
           /\ data.analytics.level.t \in {"null", "str"} -> "TypeError"
      [] OTHER -> "none"

\* What visiting one file raises, or "none".
FileError(c) == IF ReadError(c) # "none" THEN ReadError(c) ELSE AggregateError(c)

\* The default factory of aggregated_data.
NewEntry ==
    [scores |-> EmptyMap, count |-> 0, risk_level_sum |-> 0,
     analytics_level_sum |-> 0, ai_role_counts |-> EmptyMap]

\* d[key] of a defaultdict whose missing values are zero.
Get0(d, key) == IF key \in DOMAIN d THEN d[key] ELSE 0

\* for key, value in data["scores"].items(): agg["scores"][key] += value
AddScoresAssigned(acc, m) ==
    [k \in DOMAIN acc \cup DOMAIN m |-> IF k \in DOMAIN m THEN m[k].v ELSE acc[k]]
AddScores(acc, m) ==
    [k \in DOMAIN acc \cup DOMAIN m |->
        Get0(acc, k) + (IF k \in DOMAIN m THEN m[k].v ELSE 0)]

\* agg["ai_role_counts"][role] += 1
AddRoleNormalized(counts, role) ==
    LET key == IF role = "ai is a feature" THEN "AI is a Feature" ELSE role
    IN  [r \in DOMAIN counts \cup {key} |->
            Get0(counts, r) + (IF r = key THEN 1 ELSE 0)]
AddRole(counts, role) ==
    [r \in DOMAIN counts \cup {role} |->
        Get0(counts, r) + (IF r = role THEN 1 ELSE 0)]

\* section.get("level", 0.0)
LevelOf(section) == IF section.level.t = "num" THEN section.level.v ELSE 0

\* The body of the loop for a parsed record that has a product name and
\* raises nothing: the updated entry of its product.
AccumulateIfScored(entry, data) ==
    [scores |-> IF TruthyScores(data.scores)
                THEN AddScores(entry.scores, data.scores.v) ELSE entry.scores,
     count |-> IF TruthyScores(data.scores) THEN entry.count + 1 ELSE entry.count,
     risk_level_sum |-> IF TruthySection(data.risk)
                        THEN entry.risk_level_sum + LevelOf(data.risk)
                        ELSE entry.risk_level_sum,
     analytics_level_sum |-> IF TruthySection(data.analytics)
                             THEN entry.analytics_level_sum + LevelOf(data.analytics)
                             ELSE entry.analytics_level_sum,
     ai_role_counts |-> IF TruthyRole(data.ai_role)
                        THEN AddRole(entry.ai_role_counts, data.ai_role.v)
                        ELSE entry.ai_role_counts]
Accumulate(entry, data) ==
    [scores |-> IF TruthyScores(data.scores)
                THEN AddScores(entry.scores, data.scores.v) ELSE entry.scores,
     count |-> entry.count + 1,
     risk_level_sum |-> IF TruthySection(data.risk)
                        THEN entry.risk_level_sum + LevelOf(data.risk)
                        ELSE entry.risk_level_sum,
     analytics_level_sum |-> IF TruthySection(data.analytics)
                             THEN entry.analytics_level_sum + LevelOf(data.analytics)
                             ELSE entry.analytics_level_sum,
     ai_role_counts |-> IF TruthyRole(data.ai_role)
                        THEN AddRole(entry.ai_role_counts, data.ai_role.v)
                        ELSE entry.ai_role_counts]

\* aggregated_data after one parsed record that raises nothing.
AggregateEntryFirst(agg, data) ==
    LET p == data.product_name.v
        entry == IF p \in DOMAIN agg THEN agg[p] ELSE NewEntry
    IN  [q \in DOMAIN agg \cup {p} |->
            IF q = p
            THEN (IF HasProductName(data) THEN Accumulate(entry, data) ELSE entry)
            ELSE agg[q]]
Aggregate(agg, data) ==
    IF ~HasProductName(data)
    THEN agg
    ELSE LET p == data.product_name.v
             entry == IF p \in DOMAIN agg THEN agg[p] ELSE NewEntry
         IN  [q \in DOMAIN agg \cup {p} |->
                 IF q = p THEN Accumulate(entry, data) ELSE agg[q]]

\* The final averages: processed_data.
FinalData(agg) ==
    [p \in {q \in DOMAIN agg : agg[q].count > 0} |->
        [count |-> agg[p].count,
         avg_scores |-> [k \in DOMAIN agg[p].scores |->
                            Average(agg[p].scores[k], agg[p].count)],
         ai_role_counts |-> agg[p].ai_role_counts,
         avg_risk_level |-> Average(agg[p].risk_level_sum, agg[p].count),
         avg_analytics_level |-> Average(agg[p].analytics_level_sum, agg[p].count)]]

\* ------------------------------------------------------------------ state

VARIABLES
    data_dir_exists,      \* os.path.exists(DATA_DIR)
    tree,                 \* the .json files below DATA_DIR: file -> content
    depth,                \* file -> number of directories between DATA_DIR and it
    path,                 \* file -> its directory below DATA_DIR and its name
    solution_dir_exists,  \* os.path.exists(SOLUTION_DIR)
    solutions,            \* the files of SOLUTION_DIR: file name -> content
    program,              \* the entry point running or last run
    pc,                   \* "idle", "walking", "returned" or "raised"
    todo,                 \* the files the running scan has still to visit
    aggregated_data,      \* the accumulator of the running or last scan
    diagnostics,          \* what the scan printed: the root or files
    processed_data,       \* the value the last aggregation returned
    all_data,             \* the dashboard's state (initial_data / all_processed_data)
    choices,              \* dropdown -> the products it offers
    loaded,               \* TRUE once load_and_process_data has returned
    prev_data,            \* all_data and loaded as they were when the running or
    prev_loaded,          \*   last load_and_process_data was entered
    lecturer_solutions,   \* lecturer_solutions_by_product of the report scripts
    solution_diagnostics, \* the reference files load_solution_data reported
    reports,              \* the sections of the documents the scripts saved
    view                  \* what the last chart callback returned

fs == <<data_dir_exists, tree, depth, path, solution_dir_exists, solutions>>
scan == <<todo, aggregated_data, diagnostics, processed_data>>
dash == <<all_data, choices, loaded, prev_data, prev_loaded>>
batch == <<lecturer_solutions, reports>>

vars == <<fs, program, pc, scan, dash, batch, solution_diagnostics, view>>

\* The diagnostic for DATA_DIR itself; files are numbered from 1.
RootDiagnostic == 0

\* The trees of at most MaxFiles files, each with a content of cs.
Trees(cs) == UNION {[S -> cs] : S \in SUBSET Files}

Digits == <<"1", "2", "3", "4", "5", "6", "7", "8", "9">>

\* Where a file that is there from the start lies: each in a directory of
\* its own, u1/d.json, u2/d.json, ...
InitialPath(f) ==
    [user |-> <<"u", Digits[f]>>, filename |-> <<"d">> \o JsonSuffix]

\* What a call of the dashboard returned: the call and its arguments, then
\* status "ok" (a figure with these traces), "nofig" (None and a message) or
\* "raised"; printed is TRUE when load_solution_data printed a diagnostic.
View(call, product1, product2, show_solution, show_user_average, status, traces, printed) ==
    [call |-> call, product1 |-> product1, product2 |-> product2,
     show_solution |-> show_solution, show_user_average |-> show_user_average,
     status |-> status, traces |-> traces, printed |-> printed]

\* No call has returned since the last scan began.
NoView == View("none", << >>, << >>, FALSE, FALSE, "none", << >>, FALSE)

\* The three product selectors of the dashboard.
Dropdowns == {"product_dropdown", "product1_dropdown", "product2_dropdown"}

\* What the selectors offer once data is loaded: the first load is the one
\* the UI is built from, choices=sorted(list(initial_data.keys())) in all
\* three; a later one is refresh_data, whose gr.update(choices=product_list)
\* goes to product_dropdown.  The order of the list is not modelled.
ChoicesAfterLoad(data) ==
    IF ~loaded
    THEN [d \in Dropdowns |-> DOMAIN data]
    ELSE [choices EXCEPT !["product_dropdown"] = DOMAIN data]

InitState ==
    /\ program = "none"
    /\ pc = "idle"
    /\ todo = {}
    /\ aggregated_data = EmptyMap
    /\ diagnostics = {}
    /\ processed_data = EmptyMap
    /\ all_data = EmptyMap
    /\ choices = [d \in Dropdowns |-> {}]
    /\ loaded = FALSE
    /\ prev_data = EmptyMap
    /\ prev_loaded = FALSE
    /\ lecturer_solutions = EmptyMap
    /\ solution_diagnostics = {}
    /\ reports = {}
    /\ view = NoView

\* ------------------------------------------------------- reference records

\* The instructor's answers.
GeminiSolution ==
    Record(Text(Gemini), Role("AI is the Product"),
           Scores("conversational" :> Num(45) @@ "specialization" :> Num(40)
                  @@ "autonomy" :> Num(45) @@ "accessibility" :> Num(45)
                  @@ "explainability" :> Num(35)),
           Section(Num(30), TRUE), Section(Num(40), TRUE))
DeepLSolution ==
    Record(NoText, Role("AI is a Feature"),
           Scores("conversational" :> Num(20) @@ "autonomy" :> Num(30)),
           Section(Num(10), TRUE), NoSection)

\* bool(value) of a parsed JSON value: a non-empty list or a non-empty object.
TruthyValue(c) ==
    \/ c.form = "nonobject"
    \/ /\ c.form = "object"
       /\ \/ c.product_name.t # "absent"
          \/ c.ai_role.t # "absent"
          \/ c.scores.t # "absent"
          \/ c.risk.t # "absent"
          \/ c.analytics.t # "absent"

\* What load_solution_data hands back: the parsed value ("value"), None
\* ("none", printed TRUE when a diagnostic went with it) or an exception
\* ("raised").
Loaded(status, value, printed) ==
    [status |-> status, value |-> value, printed |-> printed]

SolutionCaught(e) == e \in {"JSONDecodeError", "IOError"}

load_solution_data_once(product_name) ==
    LET safe_filename == SafeFilename(product_name)
    IN  IF solution_dir_exists /\ safe_filename \in DOMAIN solutions
           /\ ~(view.call = "load_solution_data" /\ view.printed)
        THEN LET e == ReadError(solutions[safe_filename])
             IN  IF e = "none"
                 THEN Loaded("value", solutions[safe_filename], FALSE)
                 ELSE IF SolutionCaught(e)
                 THEN Loaded("none", Blank("none"), TRUE)
                 ELSE Loaded("raised", Blank("none"), FALSE)
        ELSE Loaded("none", Blank("none"), FALSE)
load_solution_data(product_name) ==
    LET safe_filename == SafeFilename(product_name)
    IN  IF solution_dir_exists /\ safe_filename \in DOMAIN solutions
        THEN LET e == ReadError(solutions[safe_filename])
             IN  IF e = "none"
                 THEN Loaded("value", solutions[safe_filename], FALSE)
                 ELSE IF SolutionCaught(e)
                 THEN Loaded("none", Blank("none"), TRUE)
                 ELSE Loaded("raised", Blank("none"), FALSE)
        ELSE Loaded("none", Blank("none"), FALSE)

\* One iteration of "for filename in os.listdir(SOLUTION_DIR)" of the report
\* scripts: acc is [status, map, printed].
LoadLecturerSolution(acc, filename) ==
    IF acc.status = "raised" \/ ~EndsWithJson(filename)
    THEN acc
    ELSE LET temp_product_name == Title(Replace(StripJson(filename), "_", " "))
             got == load_solution_data(temp_product_name)
             printed == IF got.printed THEN acc.printed \cup {filename}
                        ELSE acc.printed
         IN  IF got.status = "raised"
                \/ (got.status = "value" /\ got.value.form = "nonobject")
             THEN [acc EXCEPT !.status = "raised"]
             ELSE IF got.status = "value" /\ TruthyValue(got.value)
             THEN LET key == IF TruthyText(got.value.product_name)
                             THEN got.value.product_name.v
                             ELSE temp_product_name
                  IN  [acc EXCEPT
                         !.map = [q \in DOMAIN acc.map \cup {key} |->
                                     IF q = key THEN got.value ELSE acc.map[q]]]
             ELSE [acc EXCEPT !.printed = printed]

RECURSIVE LoadLecturerSolutions(_, _)
\* The loop over the listing, in the order os.listdir gave.
LoadLecturerSolutions(acc, listing) ==
    IF listing = << >> THEN acc
    ELSE LoadLecturerSolutions(LoadLecturerSolution(acc, Head(listing)),
                               Tail(listing))

\* The orders in which os.listdir may list the names of S.
Listings(S) ==
    {l \in [1..Cardinality(S) -> S] : \A i, j \in DOMAIN l : i # j => l[i] # l[j]}

\* lecturer_solutions.get(product_name, {})
LecturerData(product_name) ==
    IF product_name \in DOMAIN lecturer_solutions
    THEN lecturer_solutions[product_name]
    ELSE Blank("object")

\* ----------------------------------------------------------------- charts

\* A chart value n tenths; a fraction [num, den] is num / den tenths.
Ratio(n) == [num |-> n, den |-> 1]

\* A JSON value that is not a number reaches the chart as it is.
NotANumber == [num |-> 0, den |-> 0]

ValueOf(j) == IF j.t = "num" THEN Ratio(j.v) ELSE NotANumber

\* The mapping of a JSON "scores" object.
ScoreMap(j) == [k \in DOMAIN j.v |-> ValueOf(j.v[k])]

\* labels of create_spider_diagram_plotly and
\* create_comparison_spider_diagram_plotly.
DashboardLabels ==
    <<"conversational", "personalization", "autonomy", "accessibility",
      "explainability">>

\* labels of create_summary_spider_diagram and create_report_spider_diagram.
ReportLabels ==
    <<"conversational", "specialization", "autonomy", "accessibility",
      "explainability">>

\* [scores.get(label.lower(), 0) for label in labels]; the labels are lower
\* case already.
Series(scores, labels) ==
    [i \in 1..Len(labels) |->
        IF labels[i] \in DOMAIN scores THEN scores[labels[i]] ELSE Ratio(0)]

\* values.append(values[0])
Closed(values) == Append(values, values[1])

\* A trace of a chart: its legend name, the product it is for, its values.
Trace(name, product, r) == [name |-> name, product |-> product, r |-> r]

Figure(status, traces) == [status |-> status, traces |-> traces]

\* create_summary_spider_diagram(avg_student_scores, lecturer_scores, ...):
\* lecturer_scores is the JSON "scores" value of the reference.
create_summary_spider_diagram(avg_student_scores, lecturer_scores) ==
    IF lecturer_scores.t = "str"
    THEN Figure("raised", << >>)
    ELSE Figure("ok",
            (IF DOMAIN avg_student_scores # {}
             THEN <<Trace("student", EmptyText, Closed(Series(avg_student_scores, ReportLabels)))>>
             ELSE << >>)
            \o (IF TruthyScores(lecturer_scores)
                THEN <<Trace("lecturer", EmptyText,
                             Closed(Series(ScoreMap(lecturer_scores), ReportLabels)))>>
                ELSE << >>))

\* create_report_spider_diagram(user_scores, solution_scores, ...): both are
\* JSON "scores" values.
create_report_spider_diagram(user_scores, solution_scores) ==
    IF user_scores.t = "str" \/ solution_scores.t = "str"
    THEN Figure("raised", << >>)
    ELSE Figure("ok",
            (IF TruthyScores(user_scores)
             THEN <<Trace("user", EmptyText, Closed(Series(ScoreMap(user_scores), ReportLabels)))>>
             ELSE << >>)
            \o (IF TruthyScores(solution_scores)
                THEN <<Trace("lecturer", EmptyText,
                             Closed(Series(ScoreMap(solution_scores), ReportLabels)))>>
                ELSE << >>))

\* ------------------------------------------ dashboard: load_and_process_data

\* aggregated_data = defaultdict(...): a new accumulator for every call.
CarriedAggregatedData == aggregated_data
InitialAggregatedData == EmptyMap

\* os.walk(DATA_DIR) with filename.endswith(".json"): every file of the tree.
WalkedFiles == DOMAIN tree

load_and_process_data_enter ==
    /\ pc # "walking"
    /\ program' = "dashboard"
    /\ prev_data' = all_data
    /\ prev_loaded' = loaded
    /\ view' = NoView
    /\ IF ~data_dir_exists
       THEN /\ diagnostics' = {RootDiagnostic}
            /\ processed_data' = EmptyMap
            /\ all_data' = EmptyMap
            /\ choices' = ChoicesAfterLoad(EmptyMap)
            /\ loaded' = TRUE
            /\ pc' = "returned"
            /\ UNCHANGED <<todo, aggregated_data>>
       ELSE /\ diagnostics' = {}
            /\ aggregated_data' = InitialAggregatedData
            /\ todo' = WalkedFiles
            /\ processed_data' = EmptyMap
            /\ pc' = "walking"
            /\ UNCHANGED <<all_data, choices, loaded>>
    /\ UNCHANGED <<fs, batch, solution_diagnostics>>

\* What open() finds at a listed file: its content, or nothing when the
\* file has been deleted since the listing (FileNotFoundError, an OSError).
Observed(f) == IF f \in DOMAIN tree THEN tree[f] ELSE Unreadable

\* One iteration of the loop over the files.
VisitFile(f) ==
    LET e == FileError(Observed(f))
    IN  IF e = "none"
        THEN /\ aggregated_data' = Aggregate(aggregated_data, Observed(f))
             /\ todo' = todo \ {f}
             /\ UNCHANGED <<diagnostics, pc>>
        ELSE IF Caught(e)
        THEN /\ diagnostics' = diagnostics \cup {f}
             /\ todo' = todo \ {f}
             /\ UNCHANGED <<aggregated_data, pc>>
        ELSE /\ pc' = "raised"
             /\ todo' = {}
             /\ UNCHANGED <<aggregated_data, diagnostics>>

load_and_process_data_file ==
    /\ pc = "walking"
    /\ program = "dashboard"
    /\ \E f \in todo : VisitFile(f)
    /\ UNCHANGED <<fs, program, processed_data, dash, batch,
                   solution_diagnostics, view>>

load_and_process_data_return ==
    /\ pc = "walking"
    /\ program = "dashboard"
    /\ todo = {}
    /\ processed_data' = FinalData(aggregated_data)
    /\ all_data' = FinalData(aggregated_data)
    /\ choices' = ChoicesAfterLoad(FinalData(aggregated_data))
    /\ loaded' = TRUE
    /\ pc' = "returned"
    /\ UNCHANGED <<fs, program, todo, aggregated_data, diagnostics, prev_data,
                   prev_loaded, batch, solution_diagnostics, view>>

\* ------------------------------------------------- the two report scripts

\* A listing that takes the files of the data root itself.
RootFiles ==
    IF data_dir_exists THEN {f \in DOMAIN tree : depth[f] = 0} ELSE {}
\* for user_dir in os.listdir(DATA_DIR): if os.path.isdir(user_path):
\*     for filename in os.listdir(user_path): if filename.endswith(".json")
SubmitterFiles ==
    IF data_dir_exists THEN {f \in DOMAIN tree : depth[f] = 1} ELSE {}

\* The submitter directories that hold a .json file.
UserDirs == {path[f].user : f \in SubmitterFiles}

FilesIn(user_dir) == {f \in SubmitterFiles : path[f].user = user_dir}

\* data.get("username") of a file whose JSON is an object, when truthy.
HasUsername(data) ==
    data.form = "object" /\ "username" \in DOMAIN data /\ TruthyText(data.username)

\* full_username_for_report after the files of user_dir: the directory name
\* until a file gives another username (the files are read while it is the
\* directory name; the bare except skips a file that cannot be read).  Any
\* file that gives one can be the first os.listdir lists.
FullUsernames(user_dir) ==
    LET given == {tree[f].username.v :
                    f \in {g \in FilesIn(user_dir) :
                              HasUsername(tree[g]) /\ tree[g].username.v # user_dir}}
    IN  IF given = {} THEN {user_dir} ELSE given

\* One directory of the grouping loop: its files are appended to
\* student_data_grouped[user_dir], then that list is popped and stored under
\* full_username, replacing the list that name had.
Regroup(grouped, user_dir, full_username) ==
    LET appended == Put(grouped, user_dir,
                        (IF user_dir \in DOMAIN grouped THEN grouped[user_dir] ELSE {})
                            \cup FilesIn(user_dir))
    IN  Put(Without(appended, user_dir), full_username, appended[user_dir])

RECURSIVE GroupStudentData(_, _, _)
\* "Group student data by username" over the directories in listing order.
GroupStudentData(grouped, listing, full_username) ==
    IF listing = << >> THEN grouped
    ELSE GroupStudentData(
             Regroup(grouped, Head(listing), full_username[Head(listing)]),
             Tail(listing), full_username)

\* The files of the groups: those generate_student_report is called with.
GroupedFiles(grouped) == UNION {grouped[n] : n \in DOMAIN grouped}

\* The start of either script, up to the loop over the submission files:
\* "Load All Lecturer Solutions" (os.listdir(SOLUTION_DIR) raises when the
\* directory is absent), then the listing of the submitter directories.
ScriptEnter(name) ==
    /\ pc # "walking"
    /\ program' = name
    /\ view' = NoView
    /\ diagnostics' = {}
    /\ processed_data' = EmptyMap
    /\ reports' = {}
    /\ aggregated_data' = EmptyMap
    /\ IF ~solution_dir_exists
       THEN /\ pc' = "raised"
            /\ todo' = {}
            /\ lecturer_solutions' = EmptyMap
            /\ solution_diagnostics' = {}
       ELSE \E acc \in {LoadLecturerSolutions(
                            [status |-> "ok", map |-> EmptyMap, printed |-> {}], l) :
                        l \in Listings(DOMAIN solutions)} :
               /\ lecturer_solutions' = acc.map
               /\ solution_diagnostics' = acc.printed
               /\ IF acc.status = "raised"
                  THEN pc' = "raised" /\ todo' = {}
                  ELSE IF name = "summary"
                  THEN pc' = "walking" /\ todo' = SubmitterFiles
                  ELSE \E listing \in Listings(UserDirs) :
                       \E full_username \in [UserDirs ->
                               UNION {FullUsernames(u) : u \in UserDirs}] :
                          /\ \A u \in UserDirs : full_username[u] \in FullUsernames(u)
                          /\ pc' = "walking"
                          /\ todo' = GroupedFiles(
                                 GroupStudentData(EmptyMap, listing, full_username))
    /\ UNCHANGED <<fs, dash>>

\* generate_summary_report.py: "2. Aggregate All Student Data".
summary_enter == ScriptEnter("summary")

summary_file ==
    /\ pc = "walking"
    /\ program = "summary"
    /\ \E f \in todo : VisitFile(f)
    /\ UNCHANGED <<fs, program, processed_data, dash, batch,
                   solution_diagnostics, view>>

\* The roles with the smallest count, in place of the largest.
LeastFrequent(ai_role_counts) ==
    IF DOMAIN ai_role_counts = {}
    THEN {"N/A"}
    ELSE {r \in DOMAIN ai_role_counts :
            \A q \in DOMAIN ai_role_counts : ai_role_counts[r] <= ai_role_counts[q]}

\* most_frequent_student_role: "N/A", or max(ai_role_counts,
\* key=ai_role_counts.get) when the tally is not empty.  max returns the
\* first of the keys with the largest count in the order of the dict, which
\* is the order the scan met the roles in; any of them can be that one.
MostFrequent(ai_role_counts) ==
    IF DOMAIN ai_role_counts = {}
    THEN {"N/A"}
    ELSE {r \in DOMAIN ai_role_counts :
            \A q \in DOMAIN ai_role_counts : ai_role_counts[q] <= ai_role_counts[r]}

\* The section of the summary document for one product.
SummarySection(product_name, data, most_frequent_student_role) ==
    [file |-> 0, product |-> product_name,
     chart |-> create_summary_spider_diagram(
                   data.avg_scores, LecturerData(product_name).scores),
     student_role |-> most_frequent_student_role]

\* "Calculate averages from sums" and "3. Generate Summary DocX Report".
summary_return ==
    /\ pc = "walking"
    /\ program = "summary"
    /\ todo = {}
    /\ processed_data' = FinalData(aggregated_data)
    /\ LET data == FinalData(aggregated_data)
           roles == UNION {MostFrequent(data[p].ai_role_counts) : p \in DOMAIN data}
       IN  \E role \in [DOMAIN data -> roles] :
              /\ \A p \in DOMAIN data : role[p] \in MostFrequent(data[p].ai_role_counts)
              /\ LET sections == {SummarySection(p, data[p], role[p]) : p \in DOMAIN data}
                 IN  IF \E x \in sections : x.chart.status = "raised"
                     THEN pc' = "raised" /\ reports' = {}
                     ELSE pc' = "returned" /\ reports' = sections
    /\ UNCHANGED <<fs, program, todo, aggregated_data, diagnostics, dash,
                   lecturer_solutions, solution_diagnostics, view>>

\* per_student_report.py: the grouping loop, then generate_student_report
\* for every submitter; each submitter directory holds one file here.
report_enter == ScriptEnter("report")

\* product_name = student_data.get("product_name", "Unknown Product")
ReportProductName(data) ==
    IF data.product_name.t = "absent" THEN UnknownProduct ELSE data.product_name.v

\* What generate_student_report raises on a parsed value, or "none":
\* student_data.get on a non-object, product_name.replace on None,
\* user_scores.get on a string.
ReportError(data) ==
    CASE data.form = "nonobject" -> "AttributeError"
      [] data.product_name.t = "null" -> "AttributeError"
      [] data.scores.t = "str" -> "AttributeError"
      [] LecturerData(ReportProductName(data)).scores.t = "str" -> "AttributeError"
      [] OTHER -> "none"

\* The section of a student's document for one submission file.
ReportSection(f, data) ==
    [file |-> f, product |-> ReportProductName(data),
     chart |-> create_report_spider_diagram(
                   data.scores, LecturerData(ReportProductName(data)).scores)]

\* generate_student_report for the submitter of file f.
report_file ==
    /\ pc = "walking"
    /\ program = "report"
    /\ \E f \in todo :
          LET e == IF ReadError(Observed(f)) # "none" THEN ReadError(Observed(f))
                   ELSE ReportError(Observed(f))
          IN  IF e = "none"
              THEN /\ reports' = reports \cup {ReportSection(f, Observed(f))}
                   /\ todo' = todo \ {f}
                   /\ UNCHANGED <<diagnostics, pc>>
              ELSE IF Caught(e)
              THEN /\ diagnostics' = diagnostics \cup {f}
                   /\ todo' = todo \ {f}
                   /\ UNCHANGED <<reports, pc>>
              ELSE /\ pc' = "raised"
                   /\ todo' = {}
                   /\ UNCHANGED <<reports, diagnostics>>
    /\ UNCHANGED <<fs, program, aggregated_data, processed_data, dash,
                   lecturer_solutions, solution_diagnostics, view>>

report_return ==
    /\ pc = "walking"
    /\ program = "report"
    /\ todo = {}
    /\ pc' = "returned"
    /\ UNCHANGED <<fs, program, scan, dash, batch, solution_diagnostics, view>>

\* ------------------------------------------------------ dashboard: charts

\* create_spider_diagram_plotly(avg_scores, solution_scores): avg_scores is
\* a mapping of averages, solution_scores the JSON "scores" value of the
\* reference (absent for None).
create_spider_diagram_plotly(avg_scores, solution_scores) ==
    IF solution_scores.t = "str"
    THEN Figure("raised", << >>)
    ELSE Figure("ok",
            <<Trace("User Average", EmptyText, Series(avg_scores, DashboardLabels))>>
            \o (IF TruthyScores(solution_scores)
                THEN <<Trace("Solution", EmptyText,
                             Series(ScoreMap(solution_scores), DashboardLabels))>>
                ELSE << >>))

\* update_visualization(selected_product, show_solution, all_data); an
\* unselected dropdown (None) is the empty text.
update_visualization(selected_product, show_solution) ==
    LET got == load_solution_data(selected_product)
        Result(status, traces) ==
            View("update_visualization", selected_product, << >>, show_solution,
                 FALSE, status, traces, show_solution /\ got.printed)
    IN  IF selected_product = EmptyText \/ DOMAIN all_data = {}
        THEN View("update_visualization", selected_product, << >>, show_solution,
                  FALSE, "nofig", << >>, FALSE)
        ELSE IF selected_product \notin DOMAIN all_data
        THEN View("update_visualization", selected_product, << >>, show_solution,
                  FALSE, "nofig", << >>, FALSE)
        ELSE IF show_solution /\ got.status = "raised"
        THEN Result("raised", << >>)
        ELSE IF show_solution /\ got.status = "value" /\ got.value.form = "nonobject"
        THEN Result("raised", << >>)
        ELSE LET solution_scores ==
                     IF show_solution /\ got.status = "value" /\ TruthyValue(got.value)
                     THEN got.value.scores ELSE NoScores
                 fig == create_spider_diagram_plotly(
                            all_data[selected_product].avg_scores, solution_scores)
             IN  Result(fig.status, fig.traces)

\* load_solution_data(name).get('scores') if show_solution and name else None:
\* [status, scores], status "raised" when the load raises or .get is applied
\* to None or to a list.
ComparisonSolutionScores(product_name, show_solution) ==
    IF show_solution /\ product_name # EmptyText
    THEN LET got == load_solution_data(product_name)
         IN  IF got.status = "value" /\ got.value.form = "object"
             THEN [status |-> "ok", scores |-> got.value.scores]
             ELSE [status |-> "raised", scores |-> NoScores]
    ELSE [status |-> "ok", scores |-> NoScores]

\* product_data.get('avg_scores', {}) of all_data.get(product_name, {})
AvgScoresOf(product_name) ==
    IF product_name \in DOMAIN all_data THEN all_data[product_name].avg_scores
    ELSE EmptyMap

\* create_comparison_spider_diagram_plotly(product1_name, product2_name,
\* show_solution, show_user_average, all_data)
create_comparison_spider_diagram_plotly(product1_name, product2_name, show_solution, show_user_average) ==
    LET p1_avg_scores == AvgScoresOf(product1_name)
        p1_solution == ComparisonSolutionScores(product1_name, show_solution)
        p2_avg_scores == AvgScoresOf(product2_name)
        p2_solution == ComparisonSolutionScores(product2_name, show_solution)
        AvgTrace(name, avg) ==
            IF show_user_average /\ name # EmptyText /\ DOMAIN avg # {}
            THEN <<Trace("User Avg", name, Series(avg, DashboardLabels))>>
            ELSE << >>
        SolTrace(name, sol) ==
            IF show_solution /\ name # EmptyText /\ TruthyScores(sol.scores)
            THEN <<Trace("Solution", name,
                         Series(ScoreMap(sol.scores), DashboardLabels))>>
            ELSE << >>
    IN  IF \/ p1_solution.status = "raised"
           \/ p2_solution.status = "raised"
           \/ p1_solution.scores.t = "str"
           \/ p2_solution.scores.t = "str"
        THEN Figure("raised", << >>)
        ELSE Figure("ok",
                AvgTrace(product1_name, p1_avg_scores)
                \o AvgTrace(product2_name, p2_avg_scores)
                \o SolTrace(product1_name, p1_solution)
                \o SolTrace(product2_name, p2_solution))

\* update_comparison_visualization(product1, product2, show_solution,
\* show_user_average, all_data): with no product it charts (None, None).
update_comparison_visualization(product1, product2, show_solution, show_user_average) ==
    LET fig == create_comparison_spider_diagram_plotly(
                   product1, product2, show_solution, show_user_average)
    IN  View("update_comparison_visualization", product1, product2,
             show_solution, show_user_average, fig.status, fig.traces, FALSE)

RECURSIVE Enumerated(_)
\* The elements of S in a sequence: the order in which a dict is iterated
\* (its insertion order) is not modelled.
Enumerated(S) ==
    IF S = {} THEN << >>
    ELSE LET x == CHOOSE y \in S : TRUE
         IN  <<x>> \o Enumerated(S \ {x})

RECURSIVE OverviewPlots(_, _)
\* The plots generate_overview_html appends to html_parts for the products
\* of the sequence: one for every product whose avg_scores is not empty (the
\* others get a warning paragraph instead).
OverviewPlots(data, products) ==
    IF products = << >> THEN << >>
    ELSE LET product_name == Head(products)
             avg_scores == data[product_name].avg_scores
             fig == create_spider_diagram_plotly(avg_scores, NoScores)
         IN  (IF DOMAIN avg_scores # {}
              THEN <<Trace(fig.traces[1].name, product_name, fig.traces[1].r)>>
              ELSE << >>)
             \o OverviewPlots(data, Tail(products))

\* generate_overview_html(all_data): status "error" for the red message
\* returned when there is no data or no plot, else "ok" with the plots.
generate_overview_html(data) ==
    LET plots == OverviewPlots(data, Enumerated(DOMAIN data))
    IN  View("generate_overview_html", << >>, << >>, FALSE, FALSE,
             IF DOMAIN data = {} \/ plots = << >> THEN "error" ELSE "ok",
             plots, FALSE)

\* What a dropdown can hold: a product of the data, a product without data,
\* or nothing.
Selectable == DOMAIN all_data \cup {UnknownProduct, EmptyText}

\* The callbacks run once the dashboard has loaded its data.  They read
\* all_data and the reference store and change neither, so each is taken
\* from the state a load leaves.
DashboardServing ==
    loaded /\ program = "dashboard" /\ pc = "returned" /\ view = NoView

ViewFrame == UNCHANGED <<fs, program, pc, scan, dash, batch, solution_diagnostics>>

\* product_dropdown.change / show_solution_checkbox.change
update_visualization_call ==
    /\ DashboardServing
    /\ \E selected_product \in Selectable, show_solution \in BOOLEAN :
          view' = update_visualization(selected_product, show_solution)
    /\ ViewFrame

\* product1_dropdown.change and the other three triggers of the compare tab
update_comparison_visualization_call ==
    /\ DashboardServing
    /\ \E product1 \in Selectable, product2 \in Selectable,
          show_solution \in BOOLEAN, show_user_average \in BOOLEAN :
          view' = update_comparison_visualization(
                      product1, product2, show_solution, show_user_average)
    /\ ViewFrame

\* The overview tab: generate_overview_html over the loaded data.
generate_overview_html_call ==
    /\ DashboardServing
    /\ view' = generate_overview_html(all_data)
    /\ ViewFrame

\* A call of load_solution_data by itself, or one more after such a call.
load_solution_data_call ==
    /\ loaded /\ program = "dashboard" /\ pc = "returned"
    /\ view.call \in {"none", "load_solution_data"}
    /\ \E product_name \in ProductNames \cup {UnknownProduct} :
          LET got == load_solution_data(product_name)
          IN  view' = View("load_solution_data", product_name, << >>, TRUE,
                           FALSE, got.status, << >>, got.printed)
    /\ ViewFrame

\* ----------------------------------------- user_server: capture_all_data

\* The choice of the product dropdown that stands for a free-text name.
Other == <<"O", "t", "h", "e", "r">>

\* formatted_username = username_parts[0][0].upper()
\*                      + username_parts[-1].capitalize()
FormattedUsername(username_parts) ==
    <<UpperChar(username_parts[1][1])>>
        \o Capitalize(username_parts[Len(username_parts)])

\* "Product Name Logic": product_name_to_save.
ProductNameToSave(selected_product, other_product_name) ==
    IF selected_product = Other THEN Strip(other_product_name)
    ELSE selected_product

\* safe_product_name = product_name_to_save.lower().replace(" ", "_")
\*                                                 .replace("/", "_")
SafeProductNameSpacesOnly(product_name_to_save) ==
    Replace(Lower(product_name_to_save), " ", "_")
SafeProductName(product_name_to_save) ==
    Replace(Replace(Lower(product_name_to_save), " ", "_"), "/", "_")

\* analysis_data: the payload capture_all_data writes.  The sliders other
\* than conversational stay where the form was left.
AnalysisData(product_name_to_save, ai_role, conversational) ==
    Record(Text(product_name_to_save), Role(ai_role),
           Scores("conversational" :> Num(conversational)
                  @@ "specialization" :> Num(30) @@ "autonomy" :> Num(25)
                  @@ "accessibility" :> Num(25) @@ "explainability" :> Num(25)),
           Section(Num(20), TRUE), Section(Num(30), TRUE))

\* open(file_path, "w") as if it never found the file that lies at p.
FileAtNew(p) ==
    IF Files \ DOMAIN tree # {}
    THEN CHOOSE f \in Files \ DOMAIN tree : \A g \in Files \ DOMAIN tree : f <= g
    ELSE 0

\* The file at path p: the one that lies there, else the first free
\* candidate, else 0 (the model holds no more than MaxFiles files).
FileAt(p) ==
    IF \E f \in DOMAIN tree : path[f] = p
    THEN CHOOSE f \in DOMAIN tree : path[f] = p
    ELSE IF Files \ DOMAIN tree # {}
    THEN CHOOSE f \in Files \ DOMAIN tree : \A g \in Files \ DOMAIN tree : f <= g
    ELSE 0

\* capture_all_data(username_full, selected_product, other_product_name,
\* ai_role, conversational, ...): validation, payload, file saving.
\* A validation that lets every form through.
NoValidation(username_full, selected_product, other_product_name) == "none"

\* The error the validation returns, or "none".
ValidationError(username_full, selected_product, other_product_name) ==
    LET username_parts == Split(Strip(username_full))
    IN  IF \/ Len(username_parts) < 2
           \/ \E i \in DOMAIN username_parts : ~IsAlpha(username_parts[i])
        THEN "error_full_name"
        ELSE IF selected_product = Other /\ Strip(other_product_name) = << >>
        THEN "error_specify_product"
        ELSE "none"

\* file_path = ./data/<formatted_username>/<safe_product_name>.json
FilePath(username_full, product_name_to_save) ==
    [user |-> FormattedUsername(Split(Strip(username_full))),
     filename |-> SafeProductName(product_name_to_save) \o JsonSuffix]

capture_all_data(username_full, selected_product, other_product_name, ai_role, conversational) ==
    LET product_name_to_save ==
            ProductNameToSave(selected_product, other_product_name)
        error ==
            ValidationError(username_full, selected_product, other_product_name)
        Returned(product_name, status) ==
            View("capture_all_data", product_name, << >>, FALSE, FALSE, status,
                 << >>, FALSE)
    IN  IF error # "none"
        THEN /\ view' = Returned(<< >>, error)
             /\ UNCHANGED fs
        ELSE LET file_path == FilePath(username_full, product_name_to_save)
                 f == FileAt(file_path)
             IN  /\ f # 0
                 /\ data_dir_exists' = TRUE
                 /\ tree' = Put(tree, f, AnalysisData(product_name_to_save,
                                                     ai_role, conversational))
                 /\ depth' = Put(depth, f, 1)
                 /\ path' = Put(path, f, file_path)
                 /\ view' = Returned(product_name_to_save, "saved")
                 /\ UNCHANGED <<solution_dir_exists, solutions>>

\* A filled-in form: name, product choice, free-text product, slider.
Form(username_full, selected_product, other_product_name, conversational) ==
    [username_full |-> username_full, selected_product |-> selected_product,
     other_product_name |-> other_product_name, conversational |-> conversational]

JoDoe == <<"J", "o", " ", "D", "o", "e">>
JaDoe == <<"J", "a", " ", "D", "o", "e">>
AlRoe == <<" ", "a", "l", " ", " ", "r", "O", "E">>
ABC == <<" ", "A", "/", "b", " ", "C">>

\* What the form is submitted with: three submitters, two of them with the
\* same initial and last name, a listed and a free-text product, a changed
\* slider, and the inputs the validation rejects.
Forms ==
    {Form(JoDoe, Gemini, << >>, 40), Form(JoDoe, Gemini, << >>, 50),
     Form(JaDoe, Gemini, << >>, 40),
     Form(AlRoe, Gemini, ABC, 40), Form(JoDoe, Other, ABC, 40),
     Form(<<"J", "o">>, Gemini, << >>, 40),
     Form(<<"J", "o", " ", "D", "0", "e">>, Gemini, << >>, 40),
     Form(JoDoe, Other, << >>, 40), Form(AlRoe, Other, <<" ">>, 40)}

\* submit_button.click, while no scan is under way.
capture_all_data_call ==
    /\ pc # "walking"
    /\ \E form \in Forms :
          capture_all_data(form.username_full, form.selected_product,
                           form.other_product_name, "AI is a Feature",
                           form.conversational)
    /\ UNCHANGED <<program, pc, scan, dash, batch, solution_diagnostics>>

\* The forms submitted while a scan runs: two submitters of one product.
RaceForms == {Form(JoDoe, Gemini, << >>, 40), Form(AlRoe, Gemini, ABC, 40)}

\* The steps of the file saving of capture_all_data, for a scan that runs
\* beside it.  open(file_path, "w") creates or truncates the file; a
\* candidate the running scan has listed is not taken for a new file.
capture_all_data_open ==
    /\ \E form \in RaceForms :
          LET product_name_to_save ==
                  ProductNameToSave(form.selected_product, form.other_product_name)
              file_path == FilePath(form.username_full, product_name_to_save)
              f == FileAt(file_path)
          IN  /\ ValidationError(form.username_full, form.selected_product,
                                 form.other_product_name) = "none"
              /\ f # 0
              /\ f \in DOMAIN tree \/ f \notin todo
              /\ data_dir_exists' = TRUE
              /\ tree' = Put(tree, f,
                             Prefix("empty",
                                    AnalysisData(product_name_to_save,
                                                 "AI is a Feature",
                                                 form.conversational)))
              /\ depth' = Put(depth, f, 1)
              /\ path' = Put(path, f, file_path)
    /\ UNCHANGED <<solution_dir_exists, solutions, program, pc, scan, dash,
                   batch, solution_diagnostics, view>>

\* f.write(json_output_string): part of the text reaches the file.
capture_all_data_write ==
    /\ \E f \in DOMAIN tree :
          /\ tree[f].form = "empty"
          /\ tree' = Put(tree, f, Prefix("partial", tree[f]))
    /\ UNCHANGED <<data_dir_exists, depth, path, solution_dir_exists, solutions,
                   program, pc, scan, dash, batch, solution_diagnostics, view>>

\* The end of the with block: the whole text is in the file.
capture_all_data_close ==
    /\ \E f \in DOMAIN tree :
          /\ tree[f].form \in {"empty", "partial"}
          /\ tree' = Put(tree, f, Prefix("object", tree[f]))
          /\ view' = View("capture_all_data", tree[f].product_name.v, << >>,
                          FALSE, FALSE, "saved", << >>, FALSE)
    /\ UNCHANGED <<data_dir_exists, depth, path, solution_dir_exists, solutions,
                   program, pc, scan, dash, batch, solution_diagnostics>>

\* A submission file is deleted by hand at any time.
unlink_file ==
    /\ \E f \in DOMAIN tree :
          /\ tree' = [z \in DOMAIN tree \ {f} |-> tree[z]]
          /\ depth' = [z \in DOMAIN depth \ {f} |-> depth[z]]
          /\ path' = [z \in DOMAIN path \ {f} |-> path[z]]
    /\ UNCHANGED <<data_dir_exists, solution_dir_exists, solutions, program, pc,
                   scan, dash, batch, solution_diagnostics, view>>

\* A submission file is deleted by hand, while no scan is under way.
remove_file ==
    /\ pc # "walking"
    /\ \E f \in DOMAIN tree :
          /\ tree' = Without(tree, f)
          /\ depth' = Without(depth, f)
          /\ path' = Without(path, f)
    /\ view' = NoView
    /\ UNCHANGED <<data_dir_exists, solution_dir_exists, solutions, program, pc,
                   scan, dash, batch, solution_diagnostics>>

\* --------------------------------------------------------- specifications

\* The aggregation entry points over every tree of submission files, stored
\* one directory below the data root, beside a reference for Gemini.
Init ==
    /\ data_dir_exists \in BOOLEAN
    /\ tree \in (IF data_dir_exists THEN Trees(Contents) ELSE {EmptyMap})
    /\ depth = [f \in DOMAIN tree |-> 1]
    /\ path = [f \in DOMAIN tree |-> InitialPath(f)]
    /\ solution_dir_exists = TRUE
    /\ solutions = (SafeFilename(Gemini) :> GeminiSolution)
    /\ InitState

Next ==
    \/ load_and_process_data_enter
    \/ load_and_process_data_file
    \/ load_and_process_data_return
    \/ summary_enter
    \/ summary_file
    \/ summary_return
    \/ report_enter
    \/ report_file
    \/ report_return

Spec == Init /\ [][Next]_vars

\* The deepest nesting of a submission file below the data root.
MaxDepth == 2

\* Where a file lies that is depth directories below the data root.
PathAt(f, d) ==
    [InitialPath(f) EXCEPT
        !.user = IF d = 0 THEN << >>
                 ELSE IF d = 1 THEN @
                 ELSE @ \o <<"/", "s">>]

\* The aggregation entry points over trees of well-formed submissions, each
\* file in the data root itself, in a submitter directory or deeper.
InitDepth ==
    /\ data_dir_exists = TRUE
    /\ tree \in Trees(WellFormedContents)
    /\ depth \in [DOMAIN tree -> 0 .. MaxDepth]
    /\ path = [f \in DOMAIN tree |-> PathAt(f, depth[f])]
    /\ solution_dir_exists = TRUE
    /\ solutions = (SafeFilename(Gemini) :> GeminiSolution)
    /\ InitState

SpecDepth == InitDepth /\ [][Next]_vars

\* The reference stores: gemini.json absent, valid, unreadable or not
\* parseable; deepl.json absent or valid; or no reference directory at all.
GeminiReferences == {GeminiSolution, Unreadable, BadJson, BadUtf8, NonObject}

SolutionStores ==
    {EmptyMap, SafeFilename(DeepL) :> DeepLSolution}
    \cup {SafeFilename(Gemini) :> c : c \in GeminiReferences}
    \cup {SafeFilename(Gemini) :> c @@ SafeFilename(DeepL) :> DeepLSolution :
            c \in GeminiReferences}

\* The charts and the reference loader over well-formed submissions and
\* every reference store.
InitProj ==
    /\ data_dir_exists = TRUE
    /\ tree \in Trees(WellFormedContents)
    /\ depth = [f \in DOMAIN tree |-> 1]
    /\ path = [f \in DOMAIN tree |-> InitialPath(f)]
    /\ solution_dir_exists \in BOOLEAN
    /\ solutions \in (IF solution_dir_exists THEN SolutionStores ELSE {EmptyMap})
    /\ InitState

NextProj ==
    \/ Next
    \/ update_visualization_call
    \/ update_comparison_visualization_call
    \/ load_solution_data_call
    \/ generate_overview_html_call

SpecProj == InitProj /\ [][NextProj]_vars

\* The life of the data tree: submissions, deletions and refreshes of the
\* dashboard, one after the other.  The dashboard has been started over an
\* empty or absent data root: initial_data = load_and_process_data() is
\* empty, with the warning when there is no root, and the three selectors
\* were built from it.
InitLive ==
    /\ data_dir_exists \in BOOLEAN
    /\ tree = EmptyMap
    /\ depth = EmptyMap
    /\ path = EmptyMap
    /\ solution_dir_exists = TRUE
    /\ solutions = (SafeFilename(Gemini) :> GeminiSolution)
    /\ program = "dashboard"
    /\ pc = "returned"
    /\ todo = {}
    /\ aggregated_data = EmptyMap
    /\ diagnostics = (IF data_dir_exists THEN {} ELSE {RootDiagnostic})
    /\ processed_data = EmptyMap
    /\ all_data = EmptyMap
    /\ choices = [d \in Dropdowns |-> {}]
    /\ loaded = TRUE
    /\ prev_data = EmptyMap
    /\ prev_loaded = FALSE
    /\ lecturer_solutions = EmptyMap
    /\ solution_diagnostics = {}
    /\ reports = {}
    /\ view = NoView

NextLive ==
    \/ capture_all_data_call
    \/ remove_file
    \/ load_and_process_data_enter
    \/ load_and_process_data_file
    \/ load_and_process_data_return

SpecLive == InitLive /\ [][NextLive]_vars

\* The summary script over trees of up to MaxFiles + 1 submissions for
\* Gemini that differ in the role they give, if any.
RoleContents == {GeminiB, GeminiC, GeminiD, GeminiN}

InitRole ==
    /\ data_dir_exists = TRUE
    /\ tree \in UNION {[S -> RoleContents] : S \in SUBSET (1 .. MaxFiles + 1)}
    /\ depth = [f \in DOMAIN tree |-> 1]
    /\ path = [f \in DOMAIN tree |-> InitialPath(f)]
    /\ solution_dir_exists = TRUE
    /\ solutions = (SafeFilename(Gemini) :> GeminiSolution)
    /\ InitState

NextRole == summary_enter \/ summary_file \/ summary_return

SpecRole == InitRole /\ [][NextRole]_vars

\* A submission that names its submitter.
Named(data, username) == data @@ [username |-> Text(username)]

\* The per-student script over submissions in the directories u1 and u2 that
\* name no submitter, the directory they lie in, the other directory, or a
\* third name.
GroupContents ==
    {GeminiB} \cup {Named(GeminiB, n) : n \in {<<"u", "1">>, <<"u", "2">>, <<"x">>}}

InitGroup ==
    /\ data_dir_exists = TRUE
    /\ tree \in Trees(GroupContents)
    /\ depth = [f \in DOMAIN tree |-> 1]
    /\ path = [f \in DOMAIN tree |-> InitialPath(f)]
    /\ solution_dir_exists = TRUE
    /\ solutions = (SafeFilename(Gemini) :> GeminiSolution)
    /\ InitState

NextGroup == report_enter \/ report_file \/ report_return

SpecGroup == InitGroup /\ [][NextGroup]_vars

\* Submissions through the form, refreshes of the dashboard and its two
\* chart callbacks, from an empty or absent data root.
NextForm ==
    \/ capture_all_data_call
    \/ load_and_process_data_enter
    \/ load_and_process_data_file
    \/ load_and_process_data_return
    \/ update_visualization_call
    \/ update_comparison_visualization_call

SpecForm == InitLive /\ [][NextForm]_vars

\* Submissions being written, and files deleted, beside the scan of the
\* dashboard.
NextRace ==
    \/ capture_all_data_open
    \/ capture_all_data_write
    \/ capture_all_data_close
    \/ unlink_file
    \/ load_and_process_data_enter
    \/ load_and_process_data_file
    \/ load_and_process_data_return

SpecRace == InitLive /\ [][NextRace]_vars

\* ----------------------------------------------------------------- claims

\* The files of the tree that hold a JSON object naming product P.
RecordsOf(P) ==
    {f \in DOMAIN tree : tree[f].form = "object" /\ tree[f].product_name = Text(P)}

RECURSIVE SumOver(_, _)
\* The sum of val[f] over the files f of S.
SumOver(S, val) ==
    IF S = {} THEN 0
    ELSE LET f == CHOOSE x \in S : TRUE
         IN  val[f] + SumOver(S \ {f}, val)

\* What a record supplies for a field, 0 when it omits it.
ScoreSupplied(c, k) ==
    IF c.scores.t = "obj" /\ k \in DOMAIN c.scores.v THEN c.scores.v[k].v ELSE 0
RiskSupplied(c) == IF c.risk.t = "obj" THEN c.risk.level.v ELSE 0
AnalyticsSupplied(c) == IF c.analytics.t = "obj" THEN c.analytics.level.v ELSE 0

\* avg is the fraction total / count.
IsQuotient(avg, total, count) == avg.den > 0 /\ avg.num * count = total * avg.den

DashboardReturned == program = "dashboard" /\ pc = "returned"

\* C1: the aggregate load_and_process_data returns for a product P has count
\* equal to the number of files holding a record whose product_name is P;
\* a product without such a file, and a record without a name, has no entry.
C1_CountEqualsRecords ==
    DashboardReturned /\ data_dir_exists =>
        /\ DOMAIN processed_data \subseteq ProductNames
        /\ \A P \in ProductNames :
              IF RecordsOf(P) = {}
              THEN P \notin DOMAIN processed_data
              ELSE /\ P \in DOMAIN processed_data
                   /\ processed_data[P].count = Cardinality(RecordsOf(P))

\* Two files for Gemini from different submitters count as two.
C1_Witness ==
    /\ DashboardReturned
    /\ Gemini \in DOMAIN processed_data
    /\ processed_data[Gemini].count = 2
    /\ \A f \in DOMAIN tree : tree[f].product_name = Text(Gemini)

\* C2: every average of a product equals the sum of the values its records
\* supply (0 for a record that omits the field) divided by the product's
\* sample count.
C2_AverageIsSumOverCount ==
    DashboardReturned =>
        \A P \in DOMAIN processed_data :
            LET R == RecordsOf(P)
                n == Cardinality(R)
                a == processed_data[P]
            IN  /\ \A k \in DOMAIN a.avg_scores :
                      IsQuotient(a.avg_scores[k],
                                 SumOver(R, [f \in R |-> ScoreSupplied(tree[f], k)]), n)
                /\ IsQuotient(a.avg_risk_level,
                              SumOver(R, [f \in R |-> RiskSupplied(tree[f])]), n)
                /\ IsQuotient(a.avg_analytics_level,
                              SumOver(R, [f \in R |-> AnalyticsSupplied(tree[f])]), n)

\* Conversational 4.0 and 5.0 give 4.5 with count 2; specialization 3.0 and
\* risk level 2.0, supplied by one of the two records, give 1.5 and 1.0.
C2_Witness ==
    /\ DashboardReturned
    /\ Gemini \in DOMAIN processed_data
    /\ processed_data[Gemini].count = 2
    /\ processed_data[Gemini].avg_scores =
          ("conversational" :> [num |-> 45, den |-> 1]
           @@ "specialization" :> [num |-> 15, den |-> 1])
    /\ processed_data[Gemini].avg_risk_level = [num |-> 10, den |-> 1]

\* C3: a second run of load_and_process_data over the unchanged tree returns
\* the structure the first run returned.
C3_SecondRunIdentical ==
    DashboardReturned /\ prev_loaded => all_data = prev_data

C3_Witness ==
    /\ DashboardReturned
    /\ prev_loaded
    /\ Gemini \in DOMAIN all_data
    /\ all_data[Gemini].count = 2
    /\ diagnostics = {}

\* A file that cannot be read or is not parseable JSON.
Unparseable(c) == c.form \in {"unreadable", "badutf8", "badjson"}

DashboardEnded == program = "dashboard" /\ pc \in {"returned", "raised"}

\* C4: every file that cannot be read or is not parseable JSON is excluded
\* with a diagnostic and the scan continues: every well-formed file is still
\* aggregated.  (Stated for trees whose parseable files are all well-formed.)
C4_BadFileSkippedScanContinues ==
    /\ DashboardEnded
    /\ data_dir_exists
    /\ \A f \in DOMAIN tree : tree[f] \notin QualityContents
    => /\ pc = "returned"
       /\ diagnostics = {f \in DOMAIN tree : Unparseable(tree[f])}
       /\ \A P \in ProductNames :
             RecordsOf(P) # {} =>
                 /\ P \in DOMAIN processed_data
                 /\ processed_data[P].count = Cardinality(RecordsOf(P))

\* C5: for file contents that all parse as JSON, load_and_process_data
\* returns a mapping instead of raising.
C5_NeverRaisesForDataQuality ==
    /\ DashboardEnded
    /\ \A f \in DOMAIN tree : ~Unparseable(tree[f])
    => pc = "returned"

\* Product p has a file in the reference directory.
HasReference(p) == solution_dir_exists /\ SafeFilename(p) \in DOMAIN solutions

\* The products a callback was given.
ViewProducts == {view.product1, view.product2} \ {EmptyText}

\* C6: with the reference requested for products that have no reference
\* file, update_visualization and the two-product comparison return a chart
\* without a reference series instead of raising.
C6_MissingReferenceNeverRaises ==
    /\ view.call \in {"update_visualization", "update_comparison_visualization"}
    /\ view.show_solution
    /\ \A p \in ViewProducts : ~HasReference(p)
    => /\ view.status # "raised"
       /\ \A i \in DOMAIN view.traces : view.traces[i].name # "Solution"

\* The fixed order of the dimensions.
CanonicalDimensions ==
    <<"conversational", "specialization", "autonomy", "accessibility",
      "explainability">>

\* The five values of a score mapping in the fixed order, 0 when missing.
Projection(scores) == Series(scores, CanonicalDimensions)

\* The scores a trace of the dashboard charts.
TraceSource(trace) ==
    LET p == IF view.call = "update_visualization" THEN view.product1
             ELSE trace.product
    IN  IF trace.name \in {"User Average", "User Avg"}
        THEN AvgScoresOf(p)
        ELSE ScoreMap(solutions[SafeFilename(p)].scores)

\* The scores a trace of a report section charts.
SectionSource(section, trace) ==
    CASE trace.name = "student" -> processed_data[section.product].avg_scores
      [] trace.name = "user" -> ScoreMap(tree[section.file].scores)
      [] OTHER -> ScoreMap(LecturerData(section.product).scores)

\* C7: every series built for charting holds the five values of its source
\* in the order conversational, specialization, autonomy, accessibility,
\* explainability, 0 for a missing dimension: in the dashboard exactly, in
\* the reports followed by the closing repeat of the first value.
C7_ProjectionInCanonicalOrder ==
    /\ \A i \in DOMAIN view.traces :
          view.traces[i].r = Projection(TraceSource(view.traces[i]))
    /\ pc = "returned" =>
          \A section \in reports : \A i \in DOMAIN section.chart.traces :
              LET trace == section.chart.traces[i]
              IN  /\ Len(trace.r) = Len(CanonicalDimensions) + 1
                  /\ SubSeq(trace.r, 1, Len(CanonicalDimensions))
                         = Projection(SectionSource(section, trace))

\* The count and the sums of the aggregate of P are those of the records
\* that name P.
TotalsFromNamedRecords(P) ==
    LET R == RecordsOf(P)
        a == processed_data[P]
    IN  /\ a.count = Cardinality(R)
        /\ \A k \in DOMAIN a.avg_scores :
              IsQuotient(a.avg_scores[k],
                         SumOver(R, [f \in R |-> ScoreSupplied(tree[f], k)]), a.count)
        /\ IsQuotient(a.avg_risk_level,
                      SumOver(R, [f \in R |-> RiskSupplied(tree[f])]), a.count)
        /\ IsQuotient(a.avg_analytics_level,
                      SumOver(R, [f \in R |-> AnalyticsSupplied(tree[f])]), a.count)
        /\ \A r \in DOMAIN a.ai_role_counts :
              a.ai_role_counts[r]
                  = Cardinality({f \in R : tree[f].ai_role = Role(r)})

\* C8: a record without product_name (absent, null or empty) creates no
\* aggregate entry, changes no count, sum or tally of any product, and is
\* presented under no product in any output.
C8_NamelessRecordDiscarded ==
    /\ program \in {"dashboard", "summary"} /\ pc = "returned" =>
          /\ DOMAIN processed_data \subseteq ProductNames
          /\ \A P \in DOMAIN processed_data : TotalsFromNamedRecords(P)
    /\ \A section \in reports :
          /\ section.product \in ProductNames
          /\ section.file \in DOMAIN tree => HasProductName(tree[section.file])

\* C9: when the data root does not exist, or holds no submission file, the
\* aggregation returns an empty mapping without raising; for an absent root
\* exactly one diagnostic is emitted.
C9_AbsentOrEmptyRoot ==
    /\ program \in {"dashboard", "summary"}
    /\ pc \in {"returned", "raised"}
    /\ DOMAIN tree = {}
    => /\ pc = "returned"
       /\ processed_data = EmptyMap
       /\ ~data_dir_exists => Cardinality(diagnostics) = 1

\* C10: load_solution_data never raises: None without a diagnostic for an
\* absent reference file, None with a diagnostic for a reference file that
\* cannot be read or parsed.
C10_LoadSolutionNeverRaises ==
    view.call = "load_solution_data" =>
        /\ view.status # "raised"
        /\ ~HasReference(view.product1) =>
              view.status = "none" /\ ~view.printed
        /\ HasReference(view.product1)
             /\ Unparseable(solutions[SafeFilename(view.product1)]) =>
              view.status = "none" /\ view.printed

\* An aggregation entry point (the dashboard's or the summary script's) has
\* returned over an existing data root.
AggregationReturned ==
    program \in {"dashboard", "summary"} /\ pc = "returned" /\ data_dir_exists

\* The largest value of a score or level, in tenths.
MaxScore == 50

\* avg is a fraction between 0 and MaxScore.
InRange(avg) == avg.den > 0 /\ 0 <= avg.num /\ avg.num <= MaxScore * avg.den

\* C12: when every record of a product supplies for a dimension a score in
\* [0, 5], the product's average for the dimension is in [0, 5]; likewise
\* for the risk and the analytics level averages.
C12_AveragesWithinRange ==
    AggregationReturned =>
        \A P \in DOMAIN processed_data :
            LET R == RecordsOf(P)
                a == processed_data[P]
            IN  /\ \A k \in DOMAIN a.avg_scores :
                      (\A f \in R : ScoreSupplied(tree[f], k) \in 0..MaxScore)
                          => InRange(a.avg_scores[k])
                /\ (\A f \in R : RiskSupplied(tree[f]) \in 0..MaxScore)
                       => InRange(a.avg_risk_level)
                /\ (\A f \in R : AnalyticsSupplied(tree[f]) \in 0..MaxScore)
                       => InRange(a.avg_analytics_level)

\* Two Gemini records, one with conversational 5.0 and one without scores,
\* with risk levels 2.0 and 4.0: averages 2.5 and 3.0.
C12_Witness ==
    /\ AggregationReturned
    /\ Gemini \in DOMAIN processed_data
    /\ processed_data[Gemini].count = 2
    /\ {tree[f] : f \in DOMAIN tree} = {GeminiB, GeminiC}
    /\ processed_data[Gemini].avg_scores["conversational"] = [num |-> 25, den |-> 1]
    /\ processed_data[Gemini].avg_risk_level = [num |-> 30, den |-> 1]

\* C13: the aggregate carries an average of 0 for every dimension of the
\* fixed set that none of the product's records supplied.
C13_UnsuppliedDimensionIsZero ==
    AggregationReturned =>
        \A P \in DOMAIN processed_data :
            \A i \in DOMAIN CanonicalDimensions :
                LET d == CanonicalDimensions[i]
                    a == processed_data[P]
                IN  (\A f \in RecordsOf(P) :
                        ~(tree[f].scores.t = "obj" /\ d \in DOMAIN tree[f].scores.v))
                    => /\ d \in DOMAIN a.avg_scores
                       /\ a.avg_scores[d] = Ratio(0)

\* The role texts of the model's submissions.
RoleTexts == {"AI is a Feature", "AI is the Product", "ai is a feature"}

\* C14: ai_role_counts[r] of a product is the number of its records whose
\* ai_role is exactly r; an absent, null or empty role adds to no tally.
C14_RoleTallyVerbatim ==
    AggregationReturned =>
        \A P \in DOMAIN processed_data :
            LET counts == processed_data[P].ai_role_counts
            IN  /\ DOMAIN counts \subseteq RoleTexts
                /\ \A r \in RoleTexts :
                      Get0(counts, r)
                          = Cardinality({f \in RecordsOf(P) : tree[f].ai_role = Role(r)})

\* Two spellings of one role are tallied apart.
C14_Witness ==
    /\ AggregationReturned
    /\ {tree[f] : f \in DOMAIN tree} = {GeminiB, GeminiC}
    /\ processed_data[Gemini].ai_role_counts
          = ("AI is a Feature" :> 1 @@ "ai is a feature" :> 1)

\* C16: every group of the accumulator has a count of at least 1, so the
\* count > 0 test before averaging drops no group.
C16_EveryGroupCounted ==
    program \in {"dashboard", "summary"} /\ data_dir_exists =>
        /\ \A P \in DOMAIN aggregated_data : aggregated_data[P].count >= 1
        /\ pc = "returned" => DOMAIN processed_data = DOMAIN aggregated_data

\* A scan that has met a nameless record and one record of Gemini.
C16_Witness ==
    /\ program \in {"dashboard", "summary"}
    /\ pc = "returned"
    /\ \E f \in DOMAIN tree : tree[f] \in NamelessContents
    /\ DOMAIN aggregated_data = {Gemini}
    /\ aggregated_data[Gemini].count = 1

\* The five values a chart shows for a product without any score.
AllZero == [i \in DOMAIN CanonicalDimensions |-> Ratio(0)]

\* C15: a product whose records supply no dimension score still renders:
\* the overview holds a plot for every product of the data, the comparison
\* a user-average trace for a chosen product of the data, and every section
\* of the summary report a trace of the students' averages; all zero for a
\* product without scores.
C15_UnscoredProductRenders ==
    /\ view.call = "generate_overview_html" =>
          \A P \in DOMAIN all_data :
              \E i \in DOMAIN view.traces :
                  /\ view.traces[i].product = P
                  /\ DOMAIN all_data[P].avg_scores = {} => view.traces[i].r = AllZero
    /\ /\ view.call = "update_comparison_visualization"
       /\ view.status = "ok"
       /\ view.show_user_average
       => \A P \in ViewProducts \cap DOMAIN all_data :
              \E i \in DOMAIN view.traces :
                  view.traces[i].name = "User Avg" /\ view.traces[i].product = P
    /\ program = "summary" /\ pc = "returned" =>
          \A section \in reports :
              \E i \in DOMAIN section.chart.traces :
                  section.chart.traces[i].name = "student"

NamedBy(name) ==
    [i \in 1..Len(name) |->
        IF name[i] \in {" ", "/"} THEN "_" ELSE LowerChar(name[i])] \o JsonSuffix

\* C11: the file capture_all_data saves a submission for a product in has
\* the name the mapping gives the product name, and it is the name
\* load_solution_data derives for that product.
C11_SameFileNameBothSides ==
    view.call = "capture_all_data" /\ view.status = "saved" =>
        \E f \in DOMAIN tree :
            /\ tree[f].product_name = Text(view.product1)
            /\ path[f].filename = NamedBy(view.product1)
            /\ path[f].filename = SafeFilename(view.product1)

\* A submission for the free-text product "A/b C" lies in a_b_c.json.
C11_Witness ==
    /\ view.call = "capture_all_data"
    /\ view.status = "saved"
    /\ view.product1 = <<"A", "/", "b", " ", "C">>
    /\ \E f \in DOMAIN tree :
          path[f] = [user |-> <<"J", "D", "o", "e">>,
                     filename |-> <<"a", "_", "b", "_", "c", ".", "j", "s", "o", "n">>]

\* a is the aggregate of the records of the tree that name P.
IsAggregateOf(a, P) ==
    LET R == RecordsOf(P)
    IN  /\ a.count = Cardinality(R)
        /\ DOMAIN a.avg_scores
              = UNION {DOMAIN tree[f].scores.v : f \in R}
        /\ \A k \in DOMAIN a.avg_scores :
              IsQuotient(a.avg_scores[k],
                         SumOver(R, [f \in R |-> ScoreSupplied(tree[f], k)]), a.count)
        /\ IsQuotient(a.avg_risk_level,
                      SumOver(R, [f \in R |-> RiskSupplied(tree[f])]), a.count)
        /\ IsQuotient(a.avg_analytics_level,
                      SumOver(R, [f \in R |-> AnalyticsSupplied(tree[f])]), a.count)
        /\ \A r \in RoleTexts :
              Get0(a.ai_role_counts, r)
                  = Cardinality({f \in R : tree[f].ai_role = Role(r)})

\* The products the records of the tree name.
ProductsOfTree ==
    {tree[f].product_name.v : f \in {g \in DOMAIN tree : HasProductName(tree[g])}}

\* C17: the state the dashboard holds right after a refresh is the
\* aggregation of the tree as it is then, whatever was submitted, changed,
\* deleted or loaded before.
C17_RefreshRebuildsFromTree ==
    [][\/ load_and_process_data_return
       \/ load_and_process_data_enter /\ ~data_dir_exists
       =>
          IF data_dir_exists
          THEN /\ DOMAIN all_data' = ProductsOfTree
               /\ \A P \in ProductsOfTree : IsAggregateOf(all_data'[P], P)
          ELSE all_data' = EmptyMap]_vars

\* A refresh after which a product the dashboard held is gone and another
\* is there.
C17_Witness ==
    /\ DashboardReturned
    /\ prev_loaded
    /\ Gemini \in DOMAIN prev_data
    /\ Gemini \notin DOMAIN all_data
    /\ DOMAIN all_data # {}
    /\ DOMAIN all_data = ProductsOfTree

\* A listed file the writer has open, or one deleted since the listing.
InTransit(f) == f \notin DOMAIN tree \/ tree[f].form \in {"empty", "partial"}

\* C18: a scan that runs beside the writer never raises, and a file it
\* visits while the file is empty, partly written or gone gets a
\* diagnostic and leaves the accumulator as it was.
C18_RaceIsOrdinaryFailure ==
    [][/\ pc' # "raised"
       /\ \A f \in todo :
              f \notin todo' /\ pc' = "walking" /\ InTransit(f)
              => /\ f \in diagnostics'
                 /\ aggregated_data' = aggregated_data]_vars

\* A scan has returned with one submission counted and a diagnostic for the
\* other, which the writer had only partly written.
C18_Witness ==
    /\ DashboardReturned
    /\ \E f \in diagnostics \cap DOMAIN tree : tree[f].form = "partial"
    /\ Gemini \in DOMAIN all_data
    /\ all_data[Gemini].count = 1

\* C20: whichever aggregation has returned, every well-formed submission
\* file of the tree is counted for its product, at whatever depth it lies.
C20_EveryDepthAggregated ==
    AggregationReturned =>
        \A P \in ProductNames :
            RecordsOf(P) # {} =>
                /\ P \in DOMAIN processed_data
                /\ processed_data[P].count = Cardinality(RecordsOf(P))

\* C21: the tree the writer builds holds one file for a submitter and a
\* safe product name, one directory below the data root and named after the
\* product, and a submission that replaces the file of the same submitter
\* for the same product leaves the number of records of the product as it
\* was.
C21_OneFilePerPair ==
    [][/\ \A f, g \in DOMAIN tree' : path'[f] = path'[g] => f = g
       /\ \A f \in DOMAIN tree' :
              /\ depth'[f] = 1
              /\ path'[f].filename = SafeFilename(tree'[f].product_name.v)
       /\ \A f \in DOMAIN tree \cap DOMAIN tree' :
              tree'[f] # tree[f] /\ tree'[f].product_name = tree[f].product_name
              => /\ path'[f] = path[f]
                 /\ Cardinality(RecordsOf(tree[f].product_name.v))'
                       = Cardinality(RecordsOf(tree[f].product_name.v))]_vars

\* Two refreshes with a resubmission between them: the one file of Gemini
\* was replaced by another and Gemini's count is 1 as before.
C21_Witness ==
    /\ DashboardReturned
    /\ prev_loaded
    /\ Cardinality(DOMAIN tree) = 1
    /\ Gemini \in DOMAIN prev_data
    /\ Gemini \in DOMAIN all_data
    /\ prev_data[Gemini].count = 1
    /\ all_data[Gemini].count = 1
    /\ prev_data[Gemini] # all_data[Gemini]

\* C22: in a chart of the dashboard over submissions stored through the
\* form, the second value of a series of user averages is the average of the
\* specialization scores of the product.
C22_SpecializationCharted ==
    view.call \in {"update_visualization", "update_comparison_visualization"} =>
        \A i \in DOMAIN view.traces :
            LET trace == view.traces[i]
            IN  /\ trace.name \in {"User Average", "User Avg"}
                /\ "specialization" \in DOMAIN TraceSource(trace)
                => trace.r[2] = TraceSource(trace)["specialization"]

\* C23: without a reference directory no entry point raises: the scripts
\* go on with no reference for any product and the dashboard's callbacks
\* return.
C23_MissingReferenceDirIsEmpty ==
    ~solution_dir_exists =>
        /\ pc # "raised"
        /\ program \in {"summary", "report"} /\ pc \in {"walking", "returned"}
           => lecturer_solutions = EmptyMap
        /\ view.status # "raised"

SummaryReturned == program = "summary" /\ pc = "returned"

\* C24 as stated: the role a section of the summary shows has a count no
\* smaller than that of any other role of the product, and it is "N/A"
\* exactly when no record of the product gives a role.
C24_ModeAndNAExactly ==
    SummaryReturned =>
        \A section \in reports :
            LET counts == processed_data[section.product].ai_role_counts
                given == {f \in RecordsOf(section.product) : TruthyRole(tree[f].ai_role)}
            IN  /\ given # {} =>
                      /\ section.student_role \in DOMAIN counts
                      /\ \A r \in DOMAIN counts : counts[r] <= counts[section.student_role]
                /\ section.student_role = "N/A" <=> given = {}

\* C24: the role a section of the summary shows is "N/A" when no record of
\* the product gives a role, and otherwise a role of the tally whose count
\* is no smaller than that of any other; it may then be the text "N/A" that
\* records gave as their role.
C24_StudentRoleIsMode ==
    SummaryReturned =>
        \A section \in reports :
            LET counts == processed_data[section.product].ai_role_counts
                given == {f \in RecordsOf(section.product) : TruthyRole(tree[f].ai_role)}
            IN  /\ given # {} =>
                      /\ section.student_role \in DOMAIN counts
                      /\ \A r \in DOMAIN counts : counts[r] <= counts[section.student_role]
                /\ given = {} => section.student_role = "N/A"
                /\ section.student_role = "N/A" /\ given # {} =>
                      \E f \in given : tree[f].ai_role = Role("N/A")

\* Two records give one role and a third another: the section shows the
\* role of the two.
C24_Witness ==
    /\ SummaryReturned
    /\ \E section \in reports :
          /\ section.product = Gemini
          /\ section.student_role = "AI is a Feature"
          /\ processed_data[Gemini].ai_role_counts
                = ("AI is a Feature" :> 2 @@ "ai is a feature" :> 1)

\* C25: once the dashboard has loaded or refreshed its data, each of its
\* three product selectors offers the products of that data.
C25_SelectorsOfferLoadedProducts ==
    DashboardReturned /\ loaded =>
        \A d \in Dropdowns : choices[d] = DOMAIN all_data

\* C26: in a run of the per-student script every submission file of a
\* submitter directory is in a group, so that it is still to be reported,
\* has been reported or has a diagnostic.
C26_EveryFileGrouped ==
    program = "report" /\ pc \in {"walking", "returned"} =>
        \A f \in SubmitterFiles :
            \/ f \in todo
            \/ f \in diagnostics
            \/ \E section \in reports : section.file = f

\* The submitter and the product a form names.
PairOf(form) ==
    <<Split(Strip(form.username_full)),
      ProductNameToSave(form.selected_product, form.other_product_name)>>

Accepted(form) ==
    ValidationError(form.username_full, form.selected_product,
                    form.other_product_name) = "none"

\* The file f is what a submission of the form leaves.
WrittenBy(f, form) ==
    /\ Accepted(form)
    /\ path[f] = FilePath(form.username_full, PairOf(form)[2])
    /\ tree[f] = AnalysisData(PairOf(form)[2], "AI is a Feature", form.conversational)

\* C27: an accepted submission is never saved over the file that a
\* submission of another full name or another product left.
C27_DistinctPairsDistinctFiles ==
    [][\A a \in {x \in Forms : Accepted(x)} :
          /\ view' = View("capture_all_data", PairOf(a)[2], << >>, FALSE, FALSE,
                          "saved", << >>, FALSE)
          /\ path' = Put(path, FileAt(FilePath(a.username_full, PairOf(a)[2])),
                         FilePath(a.username_full, PairOf(a)[2]))
          => \A f \in DOMAIN tree : \A b \in Forms :
                WrittenBy(f, b) /\ PairOf(a) # PairOf(b)
                => path[f] # FilePath(a.username_full, PairOf(a)[2])]_vars

NameRejected(form) ==
    LET parts == Split(Strip(form.username_full))
    IN  \/ Len(parts) < 2
        \/ \E i \in DOMAIN parts : \E j \in DOMAIN parts[i] : ~IsLetter(parts[i][j])

\* The product of the form is "Other" and its free text is blank.
ProductRejected(form) ==
    /\ form.selected_product = Other
    /\ \A i \in DOMAIN form.other_product_name : form.other_product_name[i] = " "

\* The forms with either fault, and where a form without one is saved.
NameRejectedForms == {form \in Forms : NameRejected(form)}
ProductRejectedForms == {form \in Forms : ProductRejected(form)}
FilePathOf == [form \in Forms |-> FilePath(form.username_full, PairOf(form)[2])]

\* Between the two states one file was written, at path p, and nothing else
\* of the data tree differs.
OneFileWritten(p) ==
    /\ \E f \in DOMAIN tree' :
          /\ path'[f] = p
          /\ DOMAIN tree' = DOMAIN tree \cup {f}
          /\ \A g \in DOMAIN tree \ {f} : tree'[g] = tree[g] /\ path'[g] = path[g]
    /\ data_dir_exists'

C30_RoleCountsWithinCount ==
    AggregationReturned =>
        \A P \in DOMAIN processed_data :
            LET counts == processed_data[P].ai_role_counts
                total == SumOver(DOMAIN counts, counts)
            IN  /\ total <= processed_data[P].count
                /\ total = processed_data[P].count
                   <=> \A f \in RecordsOf(P) :
                          tree[f].ai_role.t = "str" /\ tree[f].ai_role.v # ""

\* Two records of Gemini, one of which gives a role.
C30_Witness ==
    /\ AggregationReturned
    /\ Gemini \in DOMAIN processed_data
    /\ processed_data[Gemini].count = 2
    /\ processed_data[Gemini].ai_role_counts = ("AI is a Feature" :> 1)

====
